---- MODULE Spec2Model ----
(***************************************************************************)
(* CombinedGameEvents: the React component that lists the recent "Roll"    *)
(* events of the dice and coinflip contracts.                              *)
(*                                                                         *)
(* The model follows the component's two effects.  The historical-fetch    *)
(* effect starts, for every effect run, two asynchronous scans             *)
(* (fetchEventsForContract), joined by Promise.all; the subscription       *)
(* effect registers one listener per contract, each delivered log running  *)
(* handleLog.  Every await of the code (getBlockNumber, getLogs, getBlock) *)
(* is a point where other callbacks may run, so every continuation is an   *)
(* action of its own.  The RPC node is the environment: the value or the   *)
(* failure of each request is chosen by the action that resumes the await. *)
(***************************************************************************)
EXTENDS Integers, Sequences, FiniteSets, Bags, TLC

----------------------------------------------------------------------------
(* Program constants *)

MAX_RESULTS == 12
TOTAL_BLOCKS_TO_CHECK == 2000
MAX_CHUNK_SIZE == 450

FetchErrorMessage == "Failed to fetch events"
Null == "null"
UnknownHash == "unknown"

GameTypes == {"dice", "coinflip"}

----------------------------------------------------------------------------
(* Bounds of the model *)

\* Each behaviour runs in one of three worlds (see Worlds); a world bounds
\* the effect runs started with a connected wallet, the RPC requests that
\* fail (reject, or getBlock answering null) and the logs the subscription
\* delivers.

\* the world of one effect run over the short chain
MaxFailures == 1
MaxDeliveries == 2
\* the world of repeated effect runs (reconnects, account changes)
MaxRuns == 2
MaxFailuresRerun == 1
MaxDeliveriesRerun == 0
\* the world whose chain holds more than MAX_RESULTS logs
MaxFailuresLong == 0
MaxDeliveriesLong == 1

\* the world of the fair specification with one effect run
MaxFailuresFair == 1
MaxDeliveriesFair == 1

\* the greatest latest block of the worlds that only scan (see ScanWorlds)
MaxLatestBlock == 2300

----------------------------------------------------------------------------
(* Addresses: sequences of characters, so that toLowerCase is computed *)

LowerChar(c) ==
    CASE c = "A" -> "a"
      [] c = "B" -> "b"
      [] c = "C" -> "c"
      [] c = "D" -> "d"
      [] OTHER -> c

ToLowerCase(s) == [n \in DOMAIN s |-> LowerChar(s[n])]

\* the accounts the wallet may hand to the component (useAccount)
Alice == <<"A", "b">>
Bob == <<"C", "d">>
Accounts == {Alice, Bob}
NoAccount == <<>>

\* the same addresses as the logs carry them
AlicePlayer == <<"A", "B">>
BobPlayer == <<"c", "D">>

----------------------------------------------------------------------------
(* Logs of the chain *)

\* A log: the emitting contract (as its game type), its block, its
\* transaction hash ("" when the node reports none), whether its data
\* decodes as a Roll event, and the decoded arguments.
Log(g, b, h, p, won) ==
    [gameType |-> g, blockNumber |-> b, transactionHash |-> h, decodes |-> TRUE,
     args |-> [player |-> p, amount |-> 1, choice |-> 0, outcome |-> IF won THEN 0 ELSE 1,
               won |-> won]]

BadLog(g, b, h) ==
    [gameType |-> g, blockNumber |-> b, transactionHash |-> h, decodes |-> FALSE,
     args |-> [player |-> NoAccount, amount |-> 0, choice |-> 0, outcome |-> 0, won |-> FALSE]]

\* the chain of the short world, each contract's logs in block order
ShortChain ==
    [dice     |-> << Log("dice", 450, "h1", AlicePlayer, TRUE),
                     Log("dice", 700, "h2", BobPlayer, FALSE) >>,
     coinflip |-> << Log("coinflip", 450, "h3", AlicePlayer, FALSE),
                     BadLog("coinflip", 460, "h4") >>]

\* the chain of the long world: more logs than the list may hold
DiceHashes == <<"d1", "d2", "d3", "d4", "d5", "d6", "d7">>
CoinflipHashes == <<"c1", "c2", "c3", "c4">>

LongChain ==
    [dice     |-> [n \in 1..7 |-> Log("dice", 440 + 10 * n, DiceHashes[n], AlicePlayer, TRUE)],
     coinflip |-> [n \in 1..4 |-> Log("coinflip", 445 + 5 * n, CoinflipHashes[n], BobPlayer, FALSE)]]

\* latest: the values provider.getBlockNumber may answer
Worlds ==
    { [name |-> "short", chain |-> ShortChain, latest |-> {450, 900}, runs |-> 1,
       failures |-> MaxFailures, deliveries |-> MaxDeliveries],
      [name |-> "rerun", chain |-> ShortChain, latest |-> {450}, runs |-> MaxRuns,
       failures |-> MaxFailuresRerun, deliveries |-> MaxDeliveriesRerun],
      [name |-> "long", chain |-> LongChain, latest |-> {900}, runs |-> 1,
       failures |-> MaxFailuresLong, deliveries |-> MaxDeliveriesLong] }

LatestBlocks == UNION {w.latest : w \in Worlds}

\* the logs the subscription may deliver: a new bet of Alice, a log the
\* historical scan also returns, a bet of Bob, and a log whose data does
\* not decode
LiveLogs ==
    { Log("dice", 901, "h5", AlicePlayer, TRUE),
      Log("dice", 450, "h1", AlicePlayer, TRUE),
      Log("coinflip", 902, "h6", BobPlayer, TRUE),
      BadLog("coinflip", 903, "h7") }

\* block.timestamp as provider.getBlock answers it
BlockTimestamp(b) == 2 * b

----------------------------------------------------------------------------
(* Pure functions of the component *)

Min(a, b) == IF a < b THEN a ELSE b
Max(a, b) == IF a > b THEN a ELSE b

\* Math.ceil(a / b) for a >= 0, b > 0
Ceil(a, b) == (a + b - 1) \div b

StartBlock(latestBlock) == Max(latestBlock - TOTAL_BLOCKS_TO_CHECK, 0)
TotalBlocksToScan(latestBlock) == latestBlock - StartBlock(latestBlock)
ChunksNeeded(latestBlock) == Ceil(TotalBlocksToScan(latestBlock), MAX_CHUNK_SIZE)
ChunkStart(latestBlock, i) == latestBlock - (i * MAX_CHUNK_SIZE) - MAX_CHUNK_SIZE
ChunkEnd(latestBlock, i) == latestBlock - (i * MAX_CHUNK_SIZE)
FromBlock(latestBlock, i) == Max(ChunkStart(latestBlock, i), StartBlock(latestBlock))
ToBlock(latestBlock, i) == ChunkEnd(latestBlock, i)

\* provider.getLogs: the contract's logs of the inclusive block range
GetLogs(contractLogs, fromBlock, toBlock) ==
    SelectSeq(contractLogs, LAMBDA l : fromBlock <= l.blockNumber /\ l.blockNumber <= toBlock)

\* the GameEvent built from a decoded log and its block
MakeEvent(log, gameType) ==
    [blockNumber     |-> log.blockNumber,
     transactionHash |-> IF log.transactionHash = "" THEN UnknownHash ELSE log.transactionHash,
     player          |-> ToLowerCase(log.args.player),
     amount          |-> log.args.amount,
     choice          |-> log.args.choice,
     outcome         |-> log.args.outcome,
     won             |-> log.args.won,
     gameType        |-> gameType,
     timestamp       |-> BlockTimestamp(log.blockNumber)]

\* Array.prototype.sort with (a, b) => b.blockNumber - a.blockNumber: stable,
\* descending by block number
InsertDesc(s, e) ==
    LET before == SelectSeq(s, LAMBDA x : x.blockNumber >= e.blockNumber)
        after  == SelectSeq(s, LAMBDA x : x.blockNumber < e.blockNumber)
    IN  before \o <<e>> \o after

RECURSIVE SortDesc(_)
SortDesc(s) ==
    IF s = <<>> THEN <<>>
    ELSE InsertDesc(SortDesc(SubSeq(s, 1, Len(s) - 1)), s[Len(s)])

\* Array.prototype.slice(0, n)
Slice(s, n) == SubSeq(s, 1, Min(n, Len(s)))

\* the historical merge with the comparator reversed (a - b)
HistoricalMergeAscending(diceEvents, coinflipEvents) ==
    LET sorted == SortDesc(diceEvents \o coinflipEvents)
    IN  Slice([n \in DOMAIN sorted |-> sorted[Len(sorted) + 1 - n]], MAX_RESULTS)

\* the historical merge without its slice
HistoricalMergeUncapped(diceEvents, coinflipEvents) ==
    SortDesc(diceEvents \o coinflipEvents)

\* [...diceEvents, ...coinflipEvents].sort(...).slice(0, MAX_RESULTS)
HistoricalMerge(diceEvents, coinflipEvents) ==
    Slice(SortDesc(diceEvents \o coinflipEvents), MAX_RESULTS)

\* the live merge without the test for a present transaction hash
LiveMergeUnchecked(prev, newEvent) ==
    Slice(SortDesc(<<newEvent>> \o prev), MAX_RESULTS)

\* the live merge without its sort
LiveMergeUnsorted(prev, newEvent) ==
    IF \E n \in DOMAIN prev : prev[n].transactionHash = newEvent.transactionHash
    THEN prev
    ELSE Slice(<<newEvent>> \o prev, MAX_RESULTS)

\* the updater handleLog hands to setEvents
LiveMerge(prev, newEvent) ==
    IF \E n \in DOMAIN prev : prev[n].transactionHash = newEvent.transactionHash
    THEN prev
    ELSE Slice(SortDesc(<<newEvent>> \o prev), MAX_RESULTS)

\* the filter with its test inverted
PlayerMatchesInverted(player, account) == player # ToLowerCase(account)

\* player !== currentAccount.toLowerCase(), negated; player is the decoded
\* address, already lower-cased
PlayerMatches(player, account) == player = ToLowerCase(account)

Runs == 1..Max(MaxRuns, 1)

----------------------------------------------------------------------------
(* State *)

VARIABLES
    world,          \* the chain and the budgets of this behaviour
    isConnected,    \* useAccount().isConnected
    currentAccount, \* useAccount().address, NoAccount when undefined
    events,         \* useState: the list the component renders
    loading,        \* useState
    error,          \* useState: Null or the message
    effectsRan,     \* the effects have run at least once
    deps,           \* [currentAccount, isConnected] of the last effect run
    current,        \* the effect run not yet cleaned up, 0 when there is none
    nRuns,          \* effect runs started with a connected wallet
    account,        \* per run: currentAccount as the closures captured it
    fetchMounted,   \* per run: isMounted of the historical-fetch effect
    subMounted,     \* per run: isMounted of the subscription effect
    listeners,      \* per run: the game types whose listener is registered
    main,           \* per run: the async function that joins the two scans
    fetch,          \* per run and contract: fetchEventsForContract
    settled,        \* per run: the contracts whose scan returned, in order
    writes,         \* per run: calls of setEvents by the historical fetch
    handlers,       \* bag of handleLog calls awaiting provider.getBlock
    failures,       \* RPC failures so far
    deliveries,     \* live logs delivered so far
    liveOutcome,    \* how the last handleLog call that ended, ended
    liveMerged      \* hashes that handleLog put into the list while the current
                    \* run's historical fetch was in flight

vars == <<world, isConnected, currentAccount, events, loading, error, effectsRan, deps,
          current, nRuns, account, fetchMounted, subMounted, listeners, main, fetch,
          settled, writes, handlers, failures, deliveries, liveOutcome, liveMerged>>

wallet == <<isConnected, currentAccount>>
view == <<events, loading, error>>
effects == <<effectsRan, deps, current, nRuns, account, fetchMounted, subMounted, listeners>>

\* fetchEventsForContract before it is called
IdleFetch ==
    [pc |-> "idle", latestBlock |-> 0, i |-> 0, allLogs |-> <<>>, k |-> 0,
     parsedEvents |-> <<>>, failedChunks |-> {}, failedLookups |-> {}]

Init ==
    /\ world \in Worlds
    /\ \/ isConnected = FALSE /\ currentAccount = NoAccount
       \/ isConnected = TRUE /\ currentAccount \in Accounts
    /\ events = <<>>
    /\ loading = TRUE
    /\ error = Null
    /\ effectsRan = FALSE
    /\ deps = [currentAccount |-> NoAccount, isConnected |-> FALSE]
    /\ current = 0
    /\ nRuns = 0
    /\ account = [r \in Runs |-> NoAccount]
    /\ fetchMounted = [r \in Runs |-> FALSE]
    /\ subMounted = [r \in Runs |-> FALSE]
    /\ listeners = [r \in Runs |-> {}]
    /\ main = [r \in Runs |-> "idle"]
    /\ fetch = [r \in Runs |-> [c \in GameTypes |-> IdleFetch]]
    /\ settled = [r \in Runs |-> <<>>]
    /\ writes = [r \in Runs |-> 0]
    /\ handlers = EmptyBag
    /\ failures = 0
    /\ deliveries = 0
    /\ liveOutcome = "none"
    /\ liveMerged = {}

----------------------------------------------------------------------------
(* The wallet (useAccount) *)

Connect(a) ==
    /\ ~isConnected
    /\ nRuns < world.runs
    /\ isConnected' = TRUE
    /\ currentAccount' = a
    /\ UNCHANGED <<world, view, effects, main, fetch, settled, writes, handlers,
                   failures, deliveries, liveOutcome, liveMerged>>

SwitchAccount(a) ==
    /\ isConnected
    /\ a # currentAccount
    /\ nRuns < world.runs
    /\ currentAccount' = a
    /\ UNCHANGED <<world, isConnected, view, effects, main, fetch, settled, writes,
                   handlers, failures, deliveries, liveOutcome, liveMerged>>

Disconnect ==
    /\ isConnected
    /\ isConnected' = FALSE
    /\ currentAccount' = NoAccount
    /\ UNCHANGED <<world, view, effects, main, fetch, settled, writes, handlers,
                   failures, deliveries, liveOutcome, liveMerged>>

----------------------------------------------------------------------------
(* The two effects, flushed together when [currentAccount, isConnected] changed *)

\* a cleanup that leaves isMounted as it is
CleanupSkipped(flags, r) == flags

\* the cleanup functions of both effects of run r
Cleanup(flags, r) == IF r = 0 THEN flags ELSE [flags EXCEPT ![r] = FALSE]
RemoveAllListeners(ls, r) == IF r = 0 THEN ls ELSE [ls EXCEPT ![r] = {}]

\* fetchEventsForContract up to its first await
StartFetch == [IdleFetch EXCEPT !.pc = "getBlockNumber"]

RunEffects ==
    /\ ~effectsRan \/ deps # [currentAccount |-> currentAccount, isConnected |-> isConnected]
    /\ effectsRan' = TRUE
    /\ deps' = [currentAccount |-> currentAccount, isConnected |-> isConnected]
    /\ IF ~isConnected \/ currentAccount = NoAccount
       THEN /\ events' = <<>>
            /\ loading' = FALSE
            /\ current' = 0
            /\ fetchMounted' = Cleanup(fetchMounted, current)
            /\ subMounted' = Cleanup(subMounted, current)
            /\ listeners' = RemoveAllListeners(listeners, current)
            /\ UNCHANGED <<error, nRuns, account, main, fetch>>
       ELSE LET r == nRuns + 1 IN
            /\ r \in Runs
            /\ nRuns' = r
            /\ current' = r
            /\ account' = [account EXCEPT ![r] = currentAccount]
            /\ fetchMounted' = [Cleanup(fetchMounted, current) EXCEPT ![r] = TRUE]
            /\ subMounted' = [Cleanup(subMounted, current) EXCEPT ![r] = TRUE]
            /\ listeners' = [RemoveAllListeners(listeners, current) EXCEPT ![r] = GameTypes]
            /\ loading' = TRUE
            /\ error' = Null
            /\ main' = [main EXCEPT ![r] = "await"]
            /\ fetch' = [fetch EXCEPT ![r] = [c \in GameTypes |-> StartFetch]]
            /\ UNCHANGED events
    /\ liveMerged' = {}
    /\ UNCHANGED <<world, wallet, settled, writes, handlers, failures, deliveries, liveOutcome>>

----------------------------------------------------------------------------
(* fetchEventsForContract: one action per continuation of an await *)

\* the first index from k on whose log decodes; parseLog throws on the
\* others and the catch skips them without an await
RECURSIVE NextDecodable(_, _)
NextDecodable(logs, k) ==
    IF k > Len(logs) \/ logs[k].decodes THEN k ELSE NextDecodable(logs, k + 1)

\* the parse loop from index k: await getBlock for the next decodable log,
\* or return parsedEvents
ParseFrom(f, k) ==
    LET n == NextDecodable(f.allLogs, k)
    IN  [f EXCEPT !.k = n, !.pc = IF n > Len(f.allLogs) THEN "done" ELSE "getBlock"]

\* the head of the chunk loop: i < chunksNeeded && isMounted
ChunkLoop(f, isMounted) ==
    IF f.i < ChunksNeeded(f.latestBlock) /\ isMounted
    THEN [f EXCEPT !.pc = "getLogs"]
    ELSE ParseFrom(f, 1)

\* a failed chunk ending the chunk loop
AfterChunkErrorBreak(f, isMounted) ==
    ParseFrom([f EXCEPT !.i = f.i + 1, !.failedChunks = f.failedChunks \cup {f.i}], 1)

\* the catch of a failed chunk: the loop goes on with the next chunk
AfterChunkError(f, isMounted) ==
    ChunkLoop([f EXCEPT !.i = f.i + 1, !.failedChunks = f.failedChunks \cup {f.i}], isMounted)

\* a resolved chunk: its logs are pushed and the loop goes on
AfterChunk(f, logs, isMounted) ==
    ChunkLoop([f EXCEPT !.i = f.i + 1, !.allLogs = f.allLogs \o logs], isMounted)

\* a log whose block lookup answered null or threw: skipped
AfterLookupError(f) ==
    ParseFrom([f EXCEPT !.failedLookups = f.failedLookups \cup {f.k}], f.k + 1)

FetchStep(r, c, f) ==
    /\ fetch' = [fetch EXCEPT ![r][c] = f]
    /\ settled' = IF f.pc = "done" THEN [settled EXCEPT ![r] = Append(@, c)] ELSE settled
    /\ UNCHANGED <<world, wallet, view, effects, main, writes, handlers, deliveries,
                   liveOutcome, liveMerged>>

GetBlockNumberResolves(r, c, latestBlock) ==
    /\ fetch[r][c].pc = "getBlockNumber"
    /\ latestBlock \in world.latest
    /\ FetchStep(r, c, ChunkLoop([fetch[r][c] EXCEPT !.latestBlock = latestBlock],
                                  fetchMounted[r]))
    /\ UNCHANGED failures

GetBlockNumberRejects(r, c) ==
    /\ fetch[r][c].pc = "getBlockNumber"
    /\ failures < world.failures
    /\ failures' = failures + 1
    /\ FetchStep(r, c, [fetch[r][c] EXCEPT !.pc = "failed"])

GetLogsResolves(r, c) ==
    LET f == fetch[r][c]
        logs == GetLogs(world.chain[c], FromBlock(f.latestBlock, f.i), ToBlock(f.latestBlock, f.i))
    IN  /\ f.pc = "getLogs"
        /\ FetchStep(r, c, AfterChunk(f, logs, fetchMounted[r]))
        /\ UNCHANGED failures

GetLogsRejects(r, c) ==
    /\ fetch[r][c].pc = "getLogs"
    /\ failures < world.failures
    /\ failures' = failures + 1
    /\ FetchStep(r, c, AfterChunkError(fetch[r][c], fetchMounted[r]))

GetBlockResolves(r, c) ==
    LET f == fetch[r][c]
        event == MakeEvent(f.allLogs[f.k], c)
    IN  /\ f.pc = "getBlock"
        /\ FetchStep(r, c, ParseFrom([f EXCEPT !.parsedEvents = Append(@, event)], f.k + 1))
        /\ UNCHANGED failures

\* getBlock answers null (continue) or rejects (caught): the log is skipped
GetBlockFails(r, c) ==
    /\ fetch[r][c].pc = "getBlock"
    /\ failures < world.failures
    /\ failures' = failures + 1
    /\ FetchStep(r, c, AfterLookupError(fetch[r][c]))

----------------------------------------------------------------------------
(* The async function of the historical-fetch effect, after Promise.all *)

\* a join that waits for one scan only
AnyFulfilled(r) == \E c \in GameTypes : fetch[r][c].pc = "done"

\* Promise.all fulfils when both scans have returned
AllFulfilled(r) == \A c \in GameTypes : fetch[r][c].pc = "done"

\* a Promise.all that never rejects
NeverRejected(r) == FALSE

\* Promise.all rejects as soon as one scan has thrown
SomeRejected(r) == \E c \in GameTypes : fetch[r][c].pc = "failed"

\* a catch that sets no message
CaughtNothing == Null

\* the message the catch passes to setError
CaughtError == FetchErrorMessage

\* a continuation that writes the list without testing isMounted
JoinUnguarded(r) ==
    /\ main[r] = "await"
    /\ AllFulfilled(r)
    /\ main' = [main EXCEPT ![r] = "done"]
    /\ events' = HistoricalMerge(fetch[r]["dice"].parsedEvents,
                                 fetch[r]["coinflip"].parsedEvents)
    /\ writes' = [writes EXCEPT ![r] = @ + 1]
    /\ liveMerged' = {}
    /\ loading' = FALSE
    /\ UNCHANGED <<world, wallet, error, effects, fetch, settled, handlers, failures,
                   deliveries, liveOutcome>>

Join(r) ==
    /\ main[r] = "await"
    /\ AllFulfilled(r)
    /\ main' = [main EXCEPT ![r] = "done"]
    /\ IF fetchMounted[r]
       THEN /\ events' = HistoricalMerge(fetch[r]["dice"].parsedEvents,
                                         fetch[r]["coinflip"].parsedEvents)
            /\ writes' = [writes EXCEPT ![r] = @ + 1]
            /\ liveMerged' = {}
       ELSE UNCHANGED <<events, writes, liveMerged>>
    /\ loading' = FALSE
    /\ UNCHANGED <<world, wallet, error, effects, fetch, settled, handlers, failures,
                   deliveries, liveOutcome>>

Catch(r) ==
    /\ main[r] = "await"
    /\ SomeRejected(r)
    /\ main' = [main EXCEPT ![r] = "done"]
    /\ error' = CaughtError
    /\ loading' = FALSE
    /\ UNCHANGED <<world, wallet, events, effects, fetch, settled, writes, handlers,
                   failures, deliveries, liveOutcome, liveMerged>>

----------------------------------------------------------------------------
(* The subscription: a delivered log runs handleLog *)

\* a delivered log, up to the await of getBlock; parseLog throwing and a
\* player other than the account both end the handler
Deliver(r, log) ==
    /\ log.gameType \in listeners[r]
    /\ deliveries < world.deliveries
    /\ deliveries' = deliveries + 1
    /\ IF ~log.decodes
       THEN /\ liveOutcome' = "undecodable"
            /\ UNCHANGED handlers
       ELSE IF ~PlayerMatches(ToLowerCase(log.args.player), account[r])
       THEN /\ liveOutcome' = "filtered"
            /\ UNCHANGED handlers
       ELSE /\ handlers' = handlers (+) SetToBag({[run |-> r, log |-> log]})
            /\ UNCHANGED liveOutcome
    /\ UNCHANGED <<world, wallet, view, effects, main, fetch, settled, writes, failures,
                   liveMerged>>

\* handleLog after getBlock answered a block
HandlerResumes(h) ==
    /\ BagIn(h, handlers)
    /\ handlers' = handlers (-) SetToBag({h})
    /\ IF subMounted[h.run]
       THEN LET newEvent == MakeEvent(h.log, h.log.gameType) IN
            /\ events' = LiveMerge(events, newEvent)
            /\ liveOutcome' = IF events' = events THEN "duplicate" ELSE "merged"
            /\ liveMerged' = IF events' # events /\ main[h.run] = "await"
                              THEN liveMerged \cup {newEvent.transactionHash}
                              ELSE liveMerged
       ELSE /\ UNCHANGED <<events, liveMerged>>
            /\ liveOutcome' = "unmounted"
    /\ UNCHANGED <<world, wallet, loading, error, effects, main, fetch, settled, writes,
                   failures, deliveries>>

\* handleLog after getBlock answered null or rejected
HandlerFails(h) ==
    /\ BagIn(h, handlers)
    /\ failures < world.failures
    /\ failures' = failures + 1
    /\ handlers' = handlers (-) SetToBag({h})
    /\ liveOutcome' = "blockFailed"
    /\ UNCHANGED <<world, wallet, view, effects, main, fetch, settled, writes, deliveries,
                   liveMerged>>

----------------------------------------------------------------------------

Next ==
    \/ \E a \in Accounts : Connect(a)
    \/ \E a \in Accounts : SwitchAccount(a)
    \/ Disconnect
    \/ RunEffects
    \/ \E r \in Runs, c \in GameTypes, b \in LatestBlocks : GetBlockNumberResolves(r, c, b)
    \/ \E r \in Runs, c \in GameTypes : GetBlockNumberRejects(r, c)
    \/ \E r \in Runs, c \in GameTypes : GetLogsResolves(r, c)
    \/ \E r \in Runs, c \in GameTypes : GetLogsRejects(r, c)
    \/ \E r \in Runs, c \in GameTypes : GetBlockResolves(r, c)
    \/ \E r \in Runs, c \in GameTypes : GetBlockFails(r, c)
    \/ \E r \in Runs : Join(r)
    \/ \E r \in Runs : Catch(r)
    \/ \E r \in Runs, log \in LiveLogs : Deliver(r, log)
    \/ \E h \in BagToSet(handlers) : HandlerResumes(h)
    \/ \E h \in BagToSet(handlers) : HandlerFails(h)

Spec == Init /\ [][Next]_vars

----------------------------------------------------------------------------
(* Scheduling: every RPC call of a scan eventually returns or fails, and   *)
(* the continuation of a settled Promise.all is run by the event loop.     *)

\* the pending RPC call of a scan returns or fails
RpcSettles(r, c) ==
    \/ \E b \in LatestBlocks : GetBlockNumberResolves(r, c, b)
    \/ GetBlockNumberRejects(r, c)
    \/ GetLogsResolves(r, c)
    \/ GetLogsRejects(r, c)
    \/ GetBlockResolves(r, c)
    \/ GetBlockFails(r, c)

\* the async function resumes after Promise.all settled
Resumes(r) == Join(r) \/ Catch(r)

Fairness ==
    /\ \A r \in Runs, c \in GameTypes : WF_vars(RpcSettles(r, c))
    /\ \A r \in Runs : WF_vars(Resumes(r))

\* one run with failures and a live log, and repeated runs without
FairWorlds ==
    { [name |-> "fair", chain |-> ShortChain, latest |-> {450}, runs |-> 1,
       failures |-> MaxFailuresFair, deliveries |-> MaxDeliveriesFair],
      [name |-> "fairRerun", chain |-> ShortChain, latest |-> {450}, runs |-> MaxRuns,
       failures |-> 0, deliveries |-> 0] }

FairInit ==
    /\ world \in FairWorlds
    /\ \/ isConnected = FALSE /\ currentAccount = NoAccount
       \/ isConnected = TRUE /\ currentAccount \in Accounts
    /\ events = <<>>
    /\ loading = TRUE
    /\ error = Null
    /\ effectsRan = FALSE
    /\ deps = [currentAccount |-> NoAccount, isConnected |-> FALSE]
    /\ current = 0
    /\ nRuns = 0
    /\ account = [r \in Runs |-> NoAccount]
    /\ fetchMounted = [r \in Runs |-> FALSE]
    /\ subMounted = [r \in Runs |-> FALSE]
    /\ listeners = [r \in Runs |-> {}]
    /\ main = [r \in Runs |-> "idle"]
    /\ fetch = [r \in Runs |-> [c \in GameTypes |-> IdleFetch]]
    /\ settled = [r \in Runs |-> <<>>]
    /\ writes = [r \in Runs |-> 0]
    /\ handlers = EmptyBag
    /\ failures = 0
    /\ deliveries = 0
    /\ liveOutcome = "none"
    /\ liveMerged = {}

FairSpec == FairInit /\ [][Next]_vars /\ Fairness

----------------------------------------------------------------------------
(* The historical scan alone, for every latest block up to MaxLatestBlock: *)
(* one effect run of a connected wallet, every request answered, no live   *)
(* log.  getBlockNumber answers the same block to both scans.              *)

ScanWorlds ==
    { [name |-> "scan", chain |-> ShortChain, latest |-> {b}, runs |-> 1,
       failures |-> 0, deliveries |-> 0] : b \in 0..MaxLatestBlock }

InitScan ==
    /\ world \in ScanWorlds
    /\ isConnected = TRUE
    /\ currentAccount = Alice
    /\ events = <<>>
    /\ loading = TRUE
    /\ error = Null
    /\ effectsRan = FALSE
    /\ deps = [currentAccount |-> NoAccount, isConnected |-> FALSE]
    /\ current = 0
    /\ nRuns = 0
    /\ account = [r \in Runs |-> NoAccount]
    /\ fetchMounted = [r \in Runs |-> FALSE]
    /\ subMounted = [r \in Runs |-> FALSE]
    /\ listeners = [r \in Runs |-> {}]
    /\ main = [r \in Runs |-> "idle"]
    /\ fetch = [r \in Runs |-> [c \in GameTypes |-> IdleFetch]]
    /\ settled = [r \in Runs |-> <<>>]
    /\ writes = [r \in Runs |-> 0]
    /\ handlers = EmptyBag
    /\ failures = 0
    /\ deliveries = 0
    /\ liveOutcome = "none"
    /\ liveMerged = {}

NextScan ==
    \/ RunEffects
    \/ \E r \in Runs, c \in GameTypes, b \in world.latest : GetBlockNumberResolves(r, c, b)
    \/ \E r \in Runs, c \in GameTypes : GetLogsResolves(r, c)
    \/ \E r \in Runs, c \in GameTypes : GetBlockResolves(r, c)
    \/ \E r \in Runs : Join(r)

SpecScan == InitScan /\ [][NextScan]_vars

----------------------------------------------------------------------------
(* Properties *)

ParsedEvents(r, c) == fetch[r][c].parsedEvents
Candidates(r) == Len(ParsedEvents(r, "dice")) + Len(ParsedEvents(r, "coinflip"))
Hashes(s) == {s[n].transactionHash : n \in DOMAIN s}

\* C1: in every reachable state no two records of the events list have the
\* same transaction hash.
C1_UniqueHashes ==
    \A m, n \in DOMAIN events : m # n => events[m].transactionHash # events[n].transactionHash

\* C2: in every reachable state the events list holds at most MAX_RESULTS
\* records.
C2_AtMostMaxResults == Len(events) <= MAX_RESULTS

\* a historical fetch with more than MAX_RESULTS parsed events has written
\* the list, which is full
C2_Witness ==
    /\ Len(events) = MAX_RESULTS
    /\ \E r \in Runs : writes[r] = 1 /\ Candidates(r) > MAX_RESULTS

\* C3: in every reachable state the events list is ordered most recent
\* first: of two adjacent records the earlier one has the greater or equal
\* block number.
C3_MostRecentFirst ==
    \A n \in 1..(Len(events) - 1) : events[n].blockNumber >= events[n + 1].blockNumber

\* a live log was merged below a more recent record
C3_Witness ==
    /\ liveOutcome = "merged"
    /\ Len(events) >= 2
    /\ events[1].blockNumber > events[Len(events)].blockNumber
    /\ \A r \in Runs : events[Len(events)].transactionHash \notin
                            Hashes(ParsedEvents(r, "dice") \o ParsedEvents(r, "coinflip"))

\* the steps of the asynchronous work of run r: its scans, its join, and
\* its handleLog calls resuming from getBlock
FetchWorks(r) == fetch'[r] # fetch[r] \/ (main[r] = "await" /\ main'[r] = "done")
HandlerEnds(h) == CopiesIn(h, handlers') < CopiesIn(h, handlers)

\* C4: after the teardown of an effect run (its isMounted flag is false),
\* the asynchronous work that run started changes none of events, loading
\* and error.
C4_TornDownRunsAreSilent ==
    [][ /\ \A r \in Runs :
             (main[r] # "idle" /\ ~fetchMounted[r] /\ FetchWorks(r)) => view' = view
        /\ \A h \in BagToSet(handlers) :
             (~subMounted[h.run] /\ HandlerEnds(h)) => view' = view ]_vars

\* the bag of the elements of a sequence
SeqToBag(s) == [e \in {s[n] : n \in DOMAIN s} |-> Cardinality({n \in DOMAIN s : s[n] = e})]

\* C5: when both scans of a historical fetch have returned and the run is
\* still mounted, the events list is set to the records of the highest
\* block numbers among the dice and the coinflip parsed events, taken
\* together as the code concatenates them (a record parsed twice counts
\* twice): min(MAX_RESULTS, number of parsed events) records, each of them a
\* parsed event, and no parsed event left out has a block number greater
\* than one that is kept.
C5_JoinKeepsTheMostRecent ==
    [][ \A r \in Runs :
          (main[r] = "await" /\ main'[r] = "done" /\ fetchMounted[r]
             /\ \A c \in GameTypes : fetch[r][c].pc = "done")
          => LET all     == SeqToBag(ParsedEvents(r, "dice") \o ParsedEvents(r, "coinflip"))
                 kept    == SeqToBag(events')
                 leftOut == all (-) kept
             IN  /\ Len(events') = Min(MAX_RESULTS, Candidates(r))
                 /\ kept \sqsubseteq all
                 /\ \A x \in BagToSet(leftOut), y \in BagToSet(kept) :
                       x.blockNumber <= y.blockNumber ]_vars

\* a join has left out a parsed event, and kept a more recent one
C5_Witness ==
    \E r \in Runs :
       /\ writes[r] = 1
       /\ Candidates(r) > Len(events)
       /\ Len(events) > 0
       /\ \E n \in DOMAIN ParsedEvents(r, "dice") :
             ParsedEvents(r, "dice")[n].blockNumber > events[Len(events)].blockNumber

\* C6: a live log whose decoded player differs, compared without regard to
\* case, from the connected account (currentAccount of the render whose
\* effect subscribed) changes neither the events list nor the pending
\* handlers; every record the subscription adds to the list has the
\* lower-cased connected account as its player.
C6_OnlyTheAccountsLogs ==
    [][ /\ \A r \in Runs, log \in LiveLogs :
             (Deliver(r, log) /\ log.decodes
                /\ ToLowerCase(log.args.player) # ToLowerCase(account[r]))
             => (events' = events /\ handlers' = handlers)
        /\ \A h \in BagToSet(handlers) :
             (HandlerEnds(h) /\ events' # events)
             => \A n \in DOMAIN events' :
                  events'[n] \in {events[m] : m \in DOMAIN events}
                    \/ events'[n].player = ToLowerCase(account[h.run]) ]_vars

\* a log of another player was delivered and dropped, and a log of the
\* account, spelled in another case, is in the list
C6_Witness ==
    /\ liveOutcome = "filtered"
    /\ \E n \in DOMAIN events, r \in Runs :
          /\ events[n].transactionHash = "h5"
          /\ subMounted[r]
          /\ events[n].player = ToLowerCase(account[r])
          /\ events[n].player # account[r]


\* C7: the live merge is idempotent on the transaction hash: a handleLog
\* call that resumes for a log whose transaction hash is in the events list
\* leaves the list unchanged.
C7_LiveMergeIdempotent ==
    [][ \A h \in BagToSet(handlers) :
          (HandlerEnds(h) /\ MakeEvent(h.log, h.log.gameType).transactionHash \in Hashes(events))
          => events' = events ]_vars

\* a mounted handler resumed for a log whose hash the list already held
C7_Witness == liveOutcome = "duplicate" /\ events # <<>>

\* the logs of the chunks 0..n-1 of a scan, the failed ones left out
RECURSIVE FetchedLogs(_, _, _)
FetchedLogs(f, c, n) ==
    IF n = 0 THEN <<>>
    ELSE FetchedLogs(f, c, n - 1) \o
         (IF (n - 1) \in f.failedChunks THEN <<>>
          ELSE GetLogs(world.chain[c], FromBlock(f.latestBlock, n - 1),
                       ToBlock(f.latestBlock, n - 1)))

\* the events of the logs 1..n of a scan, the undecodable ones and the ones
\* whose block lookup failed left out
RECURSIVE DecodedEvents(_, _, _)
DecodedEvents(f, c, n) ==
    IF n = 0 THEN <<>>
    ELSE DecodedEvents(f, c, n - 1) \o
         (IF f.allLogs[n].decodes /\ n \notin f.failedLookups
          THEN <<MakeEvent(f.allLogs[n], c)>> ELSE <<>>)

\* the steps in which a chunk request or a block lookup of a scan fails
ChunkFails(r, c) ==
    fetch[r][c].pc = "getLogs" /\ fetch'[r][c].failedChunks # fetch[r][c].failedChunks
LookupFails(r, c) ==
    fetch[r][c].pc = "getBlock" /\ fetch'[r][c].failedLookups # fetch[r][c].failedLookups

\* C8: a failed getLogs chunk, an undecodable log or a failed block lookup
\* drops only that chunk or that log: the failure leaves error as it is and
\* does not fail the scan, the chunks after it are still requested while
\* the run is mounted, and the scan's result holds every other log that
\* was fetched and decoded.
C8_FailuresDropOnlyTheirItem ==
    /\ [](\A r \in Runs, c \in GameTypes :
            LET f == fetch[r][c] IN
            /\ f.allLogs = FetchedLogs(f, c, f.i)
            /\ f.pc \in {"getBlock", "done"} =>
                 /\ f.i = ChunksNeeded(f.latestBlock) \/ ~fetchMounted[r]
                 /\ f.parsedEvents = DecodedEvents(f, c, f.k - 1)
            /\ f.pc = "done" => f.k = Len(f.allLogs) + 1)
    /\ [][ \A r \in Runs, c \in GameTypes :
             (ChunkFails(r, c) \/ LookupFails(r, c))
             => (error' = error /\ fetch'[r][c].pc # "failed") ]_vars

\* a mounted scan has returned the events of its second chunk although its
\* first chunk failed, and error is null
C8_Witness ==
    \E r \in Runs, c \in GameTypes :
       /\ fetchMounted[r]
       /\ fetch[r][c].pc = "done"
       /\ fetch[r][c].failedChunks = {0}
       /\ fetch[r][c].i = 2
       /\ fetch[r][c].parsedEvents # <<>>
       /\ error = Null

\* C9: when a scan of the historical fetch throws (getBlockNumber rejects),
\* the catch sets error to the generic message, leaves the events list as
\* it is and ends with loading false; they stay so until another effect
\* run starts.
C9_TopLevelFailure ==
    /\ [](\A r \in Runs :
            (main[r] = "done" /\ nRuns = r /\ \E c \in GameTypes : fetch[r][c].pc = "failed")
            => (error = FetchErrorMessage /\ loading = FALSE))
    /\ [][ \A r \in Runs :
             (main[r] = "await" /\ main'[r] = "done"
                /\ \E c \in GameTypes : fetch[r][c].pc = "failed")
             => (events' = events /\ error' = FetchErrorMessage /\ loading' = FALSE) ]_vars

\* the fetch of a mounted run failed over a list that a live log had filled
C9_Witness ==
    \E r \in Runs :
       /\ main[r] = "done"
       /\ fetchMounted[r]
       /\ \E c \in GameTypes : fetch[r][c].pc = "failed"
       /\ events # <<>>

\* C10: the historical fetch of an effect run writes the events list at
\* most once, only after both scans have returned, and what it writes is
\* the merge of the dice result followed by the coinflip result, whichever
\* scan returned first.
C10_JoinedOnce ==
    /\ [](\A r \in Runs : writes[r] <= 1)
    /\ [][ \A r \in Runs :
             writes'[r] # writes[r]
             => /\ \A c \in GameTypes : fetch[r][c].pc = "done"
                /\ Len(settled[r]) = 2
                /\ events' = HistoricalMerge(ParsedEvents(r, "dice"),
                                             ParsedEvents(r, "coinflip")) ]_vars

\* the coinflip scan returned first, and the list written has the dice
\* record before the coinflip record of the same block
C10_Witness ==
    \E r \in Runs :
       /\ writes[r] = 1
       /\ settled[r] = <<"coinflip", "dice">>
       /\ \E n \in 1..(Len(events) - 1) :
             /\ events[n].gameType = "dice"
             /\ events[n + 1].gameType = "coinflip"
             /\ events[n].blockNumber = events[n + 1].blockNumber


\* the effect runs whose cleanup has run
TornDown(r) == r <= nRuns /\ r # current

\* C11: after the cleanup of the subscription effect of a run, both of its
\* listeners are removed, no log is delivered to it, and no handleLog call
\* of it that was awaiting its block lookup changes the events list.
C11_SubscriptionTornDown ==
    /\ [](\A r \in Runs : TornDown(r) => listeners[r] = {})
    /\ [][ /\ \A r \in Runs, log \in LiveLogs : Deliver(r, log) => ~TornDown(r)
           /\ \A h \in BagToSet(handlers) :
                (TornDown(h.run) /\ HandlerEnds(h)) => events' = events ]_vars

\* a handleLog call got its block after the cleanup of its subscription
C11_Witness ==
    /\ liveOutcome = "unmounted"
    /\ \E r \in Runs : TornDown(r) /\ listeners[r] = {}


\* the chunks whose getLogs request a scan has issued, and their ranges
Issued(f) == 0..(IF f.pc = "getLogs" THEN f.i ELSE f.i - 1)
RequestFrom(f, j) == FromBlock(f.latestBlock, j)
RequestTo(f, j) == ToBlock(f.latestBlock, j)
Scanning(f) == f.pc \in {"getLogs", "getBlock", "done"}
WindowStart(f) ==
    IF f.latestBlock > TOTAL_BLOCKS_TO_CHECK THEN f.latestBlock - TOTAL_BLOCKS_TO_CHECK ELSE 0

\* C12: for every latest block L >= 0 the scan of one contract issues at
\* most ceil(2000/450) = 5 getLogs requests, every request has
\* max(L-2000,0) <= fromBlock <= toBlock <= L, and the requests of a scan
\* that went through its chunk loop cover every block of
\* [max(L-2000,0), L].
C12_ChunksCoverTheWindow ==
    \A r \in Runs, c \in GameTypes :
       LET f == fetch[r][c] IN
       Scanning(f) =>
         /\ Cardinality(Issued(f)) <= 5
         /\ \A j \in Issued(f) :
               /\ WindowStart(f) <= RequestFrom(f, j)
               /\ RequestFrom(f, j) <= RequestTo(f, j)
               /\ RequestTo(f, j) <= f.latestBlock
         /\ (f.pc \in {"getBlock", "done"} /\ fetchMounted[r]) =>
               \A b \in WindowStart(f)..f.latestBlock :
                  \E j \in Issued(f) : RequestFrom(f, j) <= b /\ b <= RequestTo(f, j)

\* C13: when the historical fetch of the current run joins while the wallet
\* is connected, every event of the connected account that a handleLog call
\* of this run merged into the list stays in the list, unless the new list
\* holds MAX_RESULTS records whose blocks are all at least as high.
C13_LiveEventsSurviveTheJoin ==
    [][ \A r \in Runs :
          (Join(r) /\ fetchMounted[r] /\ isConnected) =>
            \A n \in 1..Len(events) :
               (/\ events[n].transactionHash \in liveMerged
                /\ events[n].player = ToLowerCase(currentAccount)) =>
                 \/ \E m \in 1..Len(events') :
                       events'[m].transactionHash = events[n].transactionHash
                 \/ /\ Len(events') = MAX_RESULTS
                    /\ \A m \in 1..Len(events') :
                          events'[m].blockNumber >= events[n].blockNumber ]_vars

\* C14: the inclusive [fromBlock, toBlock] ranges of two different getLogs
\* requests of one scan share no block, and no log is in allLogs twice.
C14_ChunksDisjoint ==
    \A r \in Runs, c \in GameTypes :
       LET f == fetch[r][c] IN
       Scanning(f) =>
         /\ \A j1, j2 \in Issued(f) :
               j1 < j2 => RequestTo(f, j2) < RequestFrom(f, j1)
         /\ \A k1, k2 \in 1..Len(f.allLogs) :
               k1 # k2 => f.allLogs[k1] # f.allLogs[k2]

\* C15: while the wallet is connected and the historical fetch of the
\* current, mounted effect run has not joined, loading is true.
C15_LoadingWhileFetching ==
    \A r \in Runs :
       (isConnected /\ r = current /\ fetchMounted[r] /\ main[r] = "await") =>
          loading = TRUE

\* the effects have run for the present wallet state
Flushed == effectsRan /\ deps = [currentAccount |-> currentAccount, isConnected |-> isConnected]

\* C16: whenever the wallet is disconnected and the effects have run for
\* that, the events list is empty and loading is false; as this holds in
\* every such state, nothing repopulates the list before a reconnection.
C16_DisconnectedIsEmpty ==
    ((~isConnected \/ currentAccount = NoAccount) /\ Flushed) =>
       (events = <<>> /\ loading = FALSE)

\* the wallet is disconnected and the scans of an earlier connection, which
\* found events, joined after the cleanup of their effect run
C16_Witness ==
    /\ ~isConnected /\ Flushed /\ events = <<>>
    /\ \E r \in Runs :
          /\ main[r] = "done" /\ AllFulfilled(r) /\ writes[r] = 0
          /\ fetch[r]["dice"].parsedEvents # <<>>

\* C17: if every RPC call eventually returns or fails, every scan that was
\* started returns or throws, and the async function of every effect run
\* that was started ends with loading false, whether its scans succeeded,
\* one of them failed at top level, or the run was torn down meanwhile.
C17_FetchTerminates ==
    /\ \A r \in Runs, c \in GameTypes :
          (fetch[r][c].pc \in {"getBlockNumber", "getLogs", "getBlock"})
             ~> (fetch[r][c].pc \in {"done", "failed"})
    /\ \A r \in Runs : (main[r] = "await") ~> (main[r] = "done" /\ loading = FALSE)

\* a run that was torn down while fetching ended after a top-level failure
C17_Witness ==
    \E r \in Runs :
       /\ TornDown(r) /\ main[r] = "done" /\ loading = FALSE
       /\ \E c \in GameTypes : fetch[r][c].pc = "failed"

====
